---- MODULE Spec2Model ----
(***************************************************************************)
(* ContainerFragmentLoader (artdaq-core/Data/ContainerFragmentLoader.hh):  *)
(* the write view of a ContainerFragment.  The arena payload is modelled   *)
(* word by word (one word = sizeof(Fragment::value_type) = 8 bytes); byte  *)
(* offsets are kept as the code keeps them.                                *)
(*                                                                         *)
(* ContainerFragment (the read-only base class) and Fragment (the byte     *)
(* arena) are defined in other headers of artdaq-core.  The operators that *)
(* stand for them follow the design document: the index table and the      *)
(* Index Builder (sections 3 and 4.4), the end-of-data offset (4.2), the   *)
(* growth policy (4.5) and the arena with its fixed metadata slot (2).     *)
(***************************************************************************)
EXTENDS Integers, Sequences, FiniteSets, TLC

(***************************************************************************)
(* Bounds of the model.                                                    *)
(***************************************************************************)
\* records handed to addFragment / addFragments over one run
MaxRecords == 2
\* payload words of a record that has a payload (a record is its header
\* alone, or its header and this many payload words)
MaxPayloadWords == 1
\* records in one addFragments call
MaxBatch == 2
\* payload words the arena may already hold when the loader is constructed
MaxInitData == 1
\* calls that hand no record over one run: set_fragment_type,
\* set_missing_data, addFragments of an empty list
MaxOtherCalls == 1

(***************************************************************************)
(* Program constants.                                                      *)
(***************************************************************************)
\* sizeof(size_t): one index entry
SizeT == 8
\* sizeof(artdaq::Fragment::value_type)
WordBytes == 8
\* artdaq::detail::RawFragmentHeader::num_words()
HeaderWords == 2
\* ContainerFragment::Metadata::size_words
Metadata_size_words == 16
\* ContainerFragment::words_per_frag_word_()
words_per_frag_word_ == 8
\* ContainerFragment::CURRENT_VERSION
CURRENT_VERSION == 1

EmptyFragmentType == "Empty"
ContainerFragmentType == "Container"
FragTypes == {EmptyFragmentType, "T", "U"}

VARIABLES
    pc,          \* "fresh": arena only; "built": loader constructed; "failed": constructor threw
    systemType,  \* the arena's outer type tag
    metadata,    \* the Metadata record in the arena's metadata slot
    payload,     \* the arena payload, a sequence of words
    packed,      \* history: the records of the calls that returned normally, in order
    optedOut,    \* history: some add was called with allowDifferentTypes = true
    nRecs,       \* history: number of records handed to the loader so far
    nOther,      \* history: number of calls that handed no record so far
    last,        \* history: the last call, its arguments, its outcome and the state before it
    call,        \* the add in progress, statement by statement: the steps still to run and those run
    pat          \* ELGenFileOutput's constructor: the pattern, the scan position and the values

vars == <<pc, systemType, metadata, payload, packed, optedOut, nRecs, nOther, last, call, pat>>

(***************************************************************************)
(* Words of the payload.  val is the word read as a size_t.                *)
(***************************************************************************)
Word(k, val, type, id, pos) == [k |-> k, val |-> val, type |-> type, id |-> id, pos |-> pos]
\* CONTAINER_MAGIC
Magic == Word("magic", 0, "", 0, 0)
\* a word nobody has written
Junk == Word("junk", 0, "", 0, 0)
\* one size_t entry of an index table
Idx(v) == Word("idx", v, "", 0, 0)

\* frag.sizeBytes()
sizeBytes(frag) == frag.words * WordBytes

\* the bytes at frag.headerAddress(): the header (its first word carries the
\* record's byte size and type), then the rest of header and payload
FragBytes(frag) ==
    [i \in 1..frag.words |->
        IF i = 1 THEN Word("hdr", sizeBytes(frag), frag.type, frag.id, 1)
        ELSE Word("dat", 0, "", frag.id, i)]

IndexBytes(index) == [i \in 1..Len(index) |-> Idx(index[i])]

\* artdaq_Fragment_.dataSizeBytes()
dataSizeBytes(pl) == WordBytes * Len(pl)

\* memcpy(dataBegin_() + off, src, 8 * Len(src)); a write past the payload
\* leaves the payload as it is
memcpy(pl, off, src) ==
    [i \in 1..Len(pl) |->
        IF i - 1 >= off \div WordBytes /\ i - 1 < off \div WordBytes + Len(src)
        THEN src[i - off \div WordBytes] ELSE pl[i]]

\* Fragment::resize(n): payload of n words, new words unwritten
resize(pl, n) == [i \in 1..n |-> IF i <= Len(pl) THEN pl[i] ELSE Junk]

(***************************************************************************)
(* Index Builder (design document 4.4): walk block_count records from the  *)
(* first record's offset, right after the magic marker word, advancing by  *)
(* each record's self-reported size; block_count + 1 offsets.  The size is *)
(* read from the first word at the record's offset, whatever was written   *)
(* there last: a header reports the record's byte size, a word overwritten *)
(* by an index entry reads as that entry's value.                          *)
(***************************************************************************)
fragSizeAt(pl, off) ==
    IF off \div WordBytes + 1 \in DOMAIN pl THEN pl[off \div WordBytes + 1].val ELSE 0

RECURSIVE WalkIndex(_, _, _)
WalkIndex(pl, n, off) ==
    IF n = 0 THEN <<off>>
    ELSE <<off>> \o WalkIndex(pl, n - 1, off + fragSizeAt(pl, off))

create_index_(md, pl) == WalkIndex(pl, md.block_count, WordBytes)

\* end offset of the last currently packed record
lastFragmentIndex(md, pl) == create_index_(md, pl)[md.block_count + 1]

(***************************************************************************)
(* words_to_frag_words_                                                    *)
(***************************************************************************)
words_to_frag_words_(nWords) ==
    LET mod == nWords % words_per_frag_word_
    IN  IF mod # 0 THEN nWords \div words_per_frag_word_ + 1
        ELSE nWords \div words_per_frag_word_

\* artdaq_Fragment_.size(): header, metadata slot and payload, in words
FragmentSize(pl) == HeaderWords + words_to_frag_words_(Metadata_size_words) + Len(pl)

(***************************************************************************)
(* Growth (design document 4.5): the payload grows to bytes x 1.3, in      *)
(* whole words, partial words rounded up.                                  *)
(***************************************************************************)
resizeBytesWithCushion(pl, bytes) ==
    LET cushioned == (bytes * 13 + 9) \div 10
        nwords == (cushioned + WordBytes - 1) \div WordBytes
    IN  resize(pl, nwords)

\* addSpace_ that leaves the current size out of the request
addSpace_NoCurrSize(pl, bytes) == resizeBytesWithCushion(pl, bytes)

addSpace_(pl, bytes) ==
    LET currSize == WordBytes * Len(pl)
    IN  resizeBytesWithCushion(pl, bytes + currSize)

(***************************************************************************)
(* The container as the operations see it.                                 *)
(***************************************************************************)
State == [systemType |-> systemType, metadata |-> metadata, payload |-> payload]

\* the metadata slot before the loader writes it
NoMetadata ==
    [block_count |-> 0, fragment_type |-> "unset", missing_data |-> FALSE,
     has_index |-> FALSE, version |-> 0, index_offset |-> 0]

\* Constructor with the size test weakened to "too small": an arena that
\* already holds payload words is accepted
Constructor_SizeAtLeast(st, expectedFragmentType) ==
    LET m == [block_count |-> 0, fragment_type |-> expectedFragmentType,
              missing_data |-> FALSE, has_index |-> TRUE,
              version |-> CURRENT_VERSION, index_offset |-> 0]
        st1 == [st EXCEPT !.systemType = ContainerFragmentType, !.metadata = m]
    IN  IF FragmentSize(st1.payload) < HeaderWords + words_to_frag_words_(Metadata_size_words)
        THEN [st |-> st1, err |-> "InvalidFragment"]
        ELSE [st |-> [st1 EXCEPT !.payload = memcpy(resize(st1.payload, 1), 0, <<Magic>>)],
              err |-> "ok"]

(***************************************************************************)
(* ContainerFragmentLoader::ContainerFragmentLoader                        *)
(***************************************************************************)
Constructor(st, expectedFragmentType) ==
    LET m == [block_count |-> 0, fragment_type |-> expectedFragmentType,
              missing_data |-> FALSE, has_index |-> TRUE,
              version |-> CURRENT_VERSION, index_offset |-> 0]
        st1 == [st EXCEPT !.systemType = ContainerFragmentType, !.metadata = m]
    IN  IF FragmentSize(st1.payload) # HeaderWords + words_to_frag_words_(Metadata_size_words)
        THEN [st |-> st1, err |-> "InvalidFragment"]
        ELSE [st |-> [st1 EXCEPT !.payload = memcpy(resize(st1.payload, 1), 0, <<Magic>>)],
              err |-> "ok"]

\* TypePolicy that rebinds the container to the type of a record admitted
\* under allowDifferentTypes
TypePolicy_Rebind(fragment_type, type, allowDifferentTypes) ==
    IF fragment_type = EmptyFragmentType
    THEN [fragment_type |-> type, err |-> "ok"]
    ELSE IF ~allowDifferentTypes /\ type # fragment_type
         THEN [fragment_type |-> fragment_type, err |-> "WrongFragmentType"]
         ELSE [fragment_type |-> type, err |-> "ok"]

(***************************************************************************)
(* The type check at the head of addFragment and of each round of the      *)
(* addFragments loop.                                                      *)
(***************************************************************************)
TypePolicy(fragment_type, type, allowDifferentTypes) ==
    IF fragment_type = EmptyFragmentType
    THEN [fragment_type |-> type, err |-> "ok"]
    ELSE IF ~allowDifferentTypes /\ type # fragment_type
         THEN [fragment_type |-> fragment_type, err |-> "WrongFragmentType"]
         ELSE [fragment_type |-> fragment_type, err |-> "ok"]

\* addFragment that writes the metadata afresh, as the constructor does
addFragment_ResetFlags(st, frag, allowDifferentTypes) ==
    LET tp == TypePolicy(st.metadata.fragment_type, frag.type, allowDifferentTypes)
        md1 == [st.metadata EXCEPT !.fragment_type = tp.fragment_type]
        need == lastFragmentIndex(md1, st.payload) + sizeBytes(frag)
                    + SizeT * (md1.block_count + 2)
        pl1 == IF dataSizeBytes(st.payload) < need
               THEN addSpace_(st.payload, need - dataSizeBytes(st.payload))
               ELSE st.payload
        pl2 == memcpy(pl1, lastFragmentIndex(md1, pl1), FragBytes(frag))
        md2 == [md1 EXCEPT !.has_index = FALSE, !.block_count = @ + 1]
        index == create_index_(md2, pl2)
        md3 == [md2 EXCEPT !.index_offset = index[md2.block_count]]
        pl3 == memcpy(pl2, md3.index_offset, IndexBytes(index))
        md4 == [md3 EXCEPT !.has_index = TRUE, !.missing_data = FALSE]
    IN  IF tp.err # "ok"
        THEN [st |-> st, err |-> tp.err, failAt |-> 1]
        ELSE [st |-> [st EXCEPT !.metadata = md4, !.payload = pl3],
              err |-> "ok", failAt |-> 0]

\* addFragment with the capacity step ahead of the type check: a rejected
\* record has already grown the arena
addFragment_GrowFirst(st, frag, allowDifferentTypes) ==
    LET tp == TypePolicy(st.metadata.fragment_type, frag.type, allowDifferentTypes)
        md1 == [st.metadata EXCEPT !.fragment_type = tp.fragment_type]
        need == lastFragmentIndex(md1, st.payload) + sizeBytes(frag)
                    + SizeT * (md1.block_count + 2)
        pl1 == IF dataSizeBytes(st.payload) < need
               THEN addSpace_(st.payload, need - dataSizeBytes(st.payload))
               ELSE st.payload
        pl2 == memcpy(pl1, lastFragmentIndex(md1, pl1), FragBytes(frag))
        md2 == [md1 EXCEPT !.has_index = FALSE, !.block_count = @ + 1]
        index == create_index_(md2, pl2)
        md3 == [md2 EXCEPT !.index_offset = index[md2.block_count]]
        pl3 == memcpy(pl2, md3.index_offset, IndexBytes(index))
        md4 == [md3 EXCEPT !.has_index = TRUE]
    IN  IF tp.err # "ok"
        THEN [st |-> [st EXCEPT !.payload = pl1], err |-> tp.err, failAt |-> 1]
        ELSE [st |-> [st EXCEPT !.metadata = md4, !.payload = pl3],
              err |-> "ok", failAt |-> 0]

(***************************************************************************)
(* ContainerFragmentLoader::addFragment                                    *)
(***************************************************************************)
addFragment(st, frag, allowDifferentTypes) ==
    LET tp == TypePolicy(st.metadata.fragment_type, frag.type, allowDifferentTypes)
        md1 == [st.metadata EXCEPT !.fragment_type = tp.fragment_type]
        need == lastFragmentIndex(md1, st.payload) + sizeBytes(frag)
                    + SizeT * (md1.block_count + 2)
        pl1 == IF dataSizeBytes(st.payload) < need
               THEN addSpace_(st.payload, need - dataSizeBytes(st.payload))
               ELSE st.payload
        pl2 == memcpy(pl1, lastFragmentIndex(md1, pl1), FragBytes(frag))
        md2 == [md1 EXCEPT !.has_index = FALSE, !.block_count = @ + 1]
        index == create_index_(md2, pl2)
        \* index[block_count - 1], counted from 0
        md3 == [md2 EXCEPT !.index_offset = index[md2.block_count]]
        pl3 == memcpy(pl2, md3.index_offset, IndexBytes(index))
        md4 == [md3 EXCEPT !.has_index = TRUE]
    IN  IF tp.err # "ok"
        THEN [st |-> st, err |-> tp.err, failAt |-> 1]
        ELSE [st |-> [st EXCEPT !.metadata = md4, !.payload = pl3],
              err |-> "ok", failAt |-> 0]

(***************************************************************************)
(* ContainerFragmentLoader::addFragments                                   *)
(***************************************************************************)
RECURSIVE SumBytes(_)
SumBytes(frags) ==
    IF frags = <<>> THEN 0 ELSE sizeBytes(Head(frags)) + SumBytes(Tail(frags))

\* the loop over frags: type check, copy at data_ptr, advance data_ptr;
\* stops at the round that throws
RECURSIVE CopyLoop(_, _, _, _, _, _)
CopyLoop(fragment_type, pl, data_ptr, frags, k, allowDifferentTypes) ==
    IF k > Len(frags)
    THEN [fragment_type |-> fragment_type, pl |-> pl, err |-> "ok", failAt |-> 0]
    ELSE LET tp == TypePolicy(fragment_type, frags[k].type, allowDifferentTypes)
         IN  IF tp.err # "ok"
             THEN [fragment_type |-> fragment_type, pl |-> pl, err |-> tp.err, failAt |-> k]
             ELSE CopyLoop(tp.fragment_type, memcpy(pl, data_ptr, FragBytes(frags[k])),
                           data_ptr + sizeBytes(frags[k]), frags, k + 1,
                           allowDifferentTypes)

\* garbage: what index[block_count - 1] reads when block_count is 0 (a read
\* before the first element of the index vector)
addFragments(st, frags, allowDifferentTypes, garbage) ==
    LET md0 == st.metadata
        total_size == SumBytes(frags)
        need == lastFragmentIndex(md0, st.payload) + total_size
                    + SizeT * (md0.block_count + 1 + Len(frags))
        pl1 == IF dataSizeBytes(st.payload) < need
               THEN addSpace_(st.payload, need - dataSizeBytes(st.payload))
               ELSE st.payload
        data_ptr == lastFragmentIndex(md0, pl1)
        loop == CopyLoop(md0.fragment_type, pl1, data_ptr, frags, 1, allowDifferentTypes)
        md1 == [md0 EXCEPT !.fragment_type = loop.fragment_type]
        md2 == [md1 EXCEPT !.has_index = FALSE, !.block_count = @ + Len(frags)]
        index == create_index_(md2, loop.pl)
        md3 == [md2 EXCEPT !.index_offset =
                    IF md2.block_count = 0 THEN garbage ELSE index[md2.block_count]]
        pl3 == memcpy(loop.pl, md3.index_offset, IndexBytes(index))
        md4 == [md3 EXCEPT !.has_index = TRUE]
    IN  IF loop.err # "ok"
        THEN [st |-> [st EXCEPT !.metadata = md1, !.payload = loop.pl],
              err |-> loop.err, failAt |-> loop.failAt]
        ELSE [st |-> [st EXCEPT !.metadata = md4, !.payload = pl3],
              err |-> "ok", failAt |-> 0]

(***************************************************************************)
(* The adds statement by statement.  A statement is the state it leaves    *)
(* and the bytes [off, off + len) of the payload it writes (len = 0: the   *)
(* statement writes no payload byte); k is the round of the loop over      *)
(* frags the statement belongs to (0: outside the loop; addFragment's      *)
(* record counts as round 1).                                              *)
(***************************************************************************)
Stmt(label, k, st, off, len) ==
    [label |-> label, k |-> k, st |-> st, off |-> off, len |-> len]

\* lines 163/211-218 and 164-172: has_index = 0 .. has_index = 1, once the
\* n records of the call are copied; garbage as in addFragments
IndexSteps(st, n, garbage) ==
    LET s1 == [st EXCEPT !.metadata.has_index = FALSE]
        s2 == [s1 EXCEPT !.metadata.block_count = @ + n]
        index == create_index_(s2.metadata, s2.payload)
        s3 == [s2 EXCEPT !.metadata.index_offset =
                   IF s2.metadata.block_count = 0 THEN garbage
                   ELSE index[s2.metadata.block_count]]
        s4 == [s3 EXCEPT !.payload =
                   memcpy(s3.payload, s3.metadata.index_offset, IndexBytes(index))]
        s5 == [s4 EXCEPT !.metadata.has_index = TRUE]
    IN  << Stmt("has_index = 0", 0, s1, 0, 0),
           Stmt("block_count", 0, s2, 0, 0),
           Stmt("index_offset", 0, s3, 0, 0),
           Stmt("memcpy index", 0, s4, s3.metadata.index_offset,
                SizeT * (s3.metadata.block_count + 1)),
           Stmt("has_index = 1", 0, s5, 0, 0) >>

\* addFragments as a loop of addFragment: capacity step, count and index
\* table once per record
RECURSIVE addFragmentsSteps_PerRecord(_, _, _, _)
addFragmentsSteps_PerRecord(st, frags, allowDifferentTypes, garbage) ==
    IF frags = <<>>
    THEN <<>>
    ELSE LET frag == Head(frags)
             tp == TypePolicy(st.metadata.fragment_type, frag.type, allowDifferentTypes)
             s1 == [st EXCEPT !.metadata.fragment_type = tp.fragment_type]
             need == lastFragmentIndex(s1.metadata, s1.payload) + sizeBytes(frag)
                         + SizeT * (s1.metadata.block_count + 2)
             grows == dataSizeBytes(s1.payload) < need
             s2 == IF grows
                   THEN [s1 EXCEPT !.payload = addSpace_(@, need - dataSizeBytes(@))]
                   ELSE s1
             dataEnd_ == lastFragmentIndex(s2.metadata, s2.payload)
             s3 == [s2 EXCEPT !.payload = memcpy(@, dataEnd_, FragBytes(frag))]
             tail == IndexSteps(s3, 1, garbage)
         IN  IF tp.err # "ok"
             THEN << Stmt("throw", 1, st, 0, 0) >>
             ELSE << Stmt("fragment_type", 1, s1, 0, 0) >>
                  \o (IF grows THEN << Stmt("addSpace_", 0, s2, 0, 0) >> ELSE <<>>)
                  \o << Stmt("memcpy frag", 1, s3, dataEnd_, sizeBytes(frag)) >>
                  \o tail
                  \o addFragmentsSteps_PerRecord(tail[Len(tail)].st, Tail(frags),
                                                 allowDifferentTypes, garbage)

\* ContainerFragmentLoader::addFragment, lines 148-172
addFragmentSteps(st, frag, allowDifferentTypes) ==
    LET tp == TypePolicy(st.metadata.fragment_type, frag.type, allowDifferentTypes)
        s1 == [st EXCEPT !.metadata.fragment_type = tp.fragment_type]
        need == lastFragmentIndex(s1.metadata, s1.payload) + sizeBytes(frag)
                    + SizeT * (s1.metadata.block_count + 2)
        grows == dataSizeBytes(s1.payload) < need
        s2 == IF grows
              THEN [s1 EXCEPT !.payload = addSpace_(@, need - dataSizeBytes(@))]
              ELSE s1
        dataEnd_ == lastFragmentIndex(s2.metadata, s2.payload)
        s3 == [s2 EXCEPT !.payload = memcpy(@, dataEnd_, FragBytes(frag))]
    IN  IF tp.err # "ok"
        THEN << Stmt("throw", 1, st, 0, 0) >>
        ELSE << Stmt("fragment_type", 1, s1, 0, 0) >>
             \o (IF grows THEN << Stmt("addSpace_", 0, s2, 0, 0) >> ELSE <<>>)
             \o << Stmt("memcpy frag", 1, s3, dataEnd_, sizeBytes(frag)) >>
             \o IndexSteps(s3, 1, 0)

\* the loop of addFragments from round k on, lines 196-210
RECURSIVE CopyLoopSteps(_, _, _, _, _)
CopyLoopSteps(st, data_ptr, frags, k, allowDifferentTypes) ==
    IF k > Len(frags)
    THEN <<>>
    ELSE LET tp == TypePolicy(st.metadata.fragment_type, frags[k].type,
                              allowDifferentTypes)
             s1 == [st EXCEPT !.metadata.fragment_type = tp.fragment_type]
             s2 == [s1 EXCEPT !.payload = memcpy(@, data_ptr, FragBytes(frags[k]))]
         IN  IF tp.err # "ok"
             THEN << Stmt("throw", k, st, 0, 0) >>
             ELSE << Stmt("fragment_type", k, s1, 0, 0),
                     Stmt("memcpy frag", k, s2, data_ptr, sizeBytes(frags[k])) >>
                  \o CopyLoopSteps(s2, data_ptr + sizeBytes(frags[k]), frags, k + 1,
                                   allowDifferentTypes)

\* ContainerFragmentLoader::addFragments, lines 185-218
addFragmentsSteps(st, frags, allowDifferentTypes, garbage) ==
    LET need == lastFragmentIndex(st.metadata, st.payload) + SumBytes(frags)
                    + SizeT * (st.metadata.block_count + 1 + Len(frags))
        grows == dataSizeBytes(st.payload) < need
        s1 == IF grows
              THEN [st EXCEPT !.payload = addSpace_(@, need - dataSizeBytes(@))]
              ELSE st
        data_ptr == lastFragmentIndex(s1.metadata, s1.payload)
        loop == CopyLoopSteps(s1, data_ptr, frags, 1, allowDifferentTypes)
        thrown == loop # <<>> /\ loop[Len(loop)].label = "throw"
        s2 == IF loop = <<>> THEN s1 ELSE loop[Len(loop)].st
    IN  (IF grows THEN << Stmt("addSpace_", 0, s1, 0, 0) >> ELSE <<>>)
        \o loop
        \o (IF thrown THEN <<>> ELSE IndexSteps(s2, Len(frags), garbage))

(***************************************************************************)
(* Inputs.                                                                 *)
(***************************************************************************)
FragWords == {HeaderWords, HeaderWords + MaxPayloadWords}
\* the expected types the loader is constructed with ("U" behaves as "T" does)
ExpectedTypes == {EmptyFragmentType, "T"}
Frag(type, words, id) == [type |-> type, words |-> words, id |-> id]
\* the values an out-of-range index read may return
GarbageOffsets == {0, WordBytes, 3 * WordBytes}

(***************************************************************************)
(* Actions.                                                                *)
(***************************************************************************)
Call(op, frags, allow, type, out) ==
    [op |-> op, frags |-> frags, allow |-> allow, type |-> type,
     err |-> out.err, failAt |-> out.failAt, pre |-> State]

\* no add in progress
NoCall == [run |-> <<>>, done |-> <<>>]
\* no log destination under construction
NoPattern == [pc |-> "off"]

Install(st) ==
    /\ systemType' = st.systemType
    /\ metadata' = st.metadata
    /\ payload' = st.payload

Init ==
    /\ pc = "fresh"
    /\ systemType = "Invalid"
    /\ metadata = NoMetadata
    /\ payload \in {resize(<<>>, d) : d \in 0..MaxInitData}
    /\ packed = <<>>
    /\ optedOut = FALSE
    /\ nRecs = 0
    /\ nOther = 0
    /\ last = [op |-> "none", frags |-> <<>>, allow |-> FALSE, type |-> "",
               err |-> "ok", failAt |-> 0,
               pre |-> [systemType |-> "Invalid", metadata |-> NoMetadata, payload |-> <<>>]]
    /\ call = NoCall
    /\ pat = NoPattern

Construct ==
    /\ pc = "fresh"
    /\ \E t \in ExpectedTypes :
         LET out == Constructor(State, t)
         IN  /\ Install(out.st)
             /\ pc' = IF out.err = "ok" THEN "built" ELSE "failed"
             /\ last' = Call("construct", <<>>, FALSE, t, [err |-> out.err, failAt |-> 0])
    /\ UNCHANGED <<packed, optedOut, nRecs, nOther, call, pat>>

SetFragmentType ==
    /\ pc = "built"
    /\ nOther < MaxOtherCalls
    /\ nOther' = nOther + 1
    /\ \E t \in FragTypes :
         /\ metadata' = [metadata EXCEPT !.fragment_type = t]
         /\ last' = Call("set_fragment_type", <<>>, FALSE, t, [err |-> "ok", failAt |-> 0])
    /\ UNCHANGED <<pc, systemType, payload, packed, optedOut, nRecs, call, pat>>

SetMissingData ==
    /\ pc = "built"
    /\ nOther < MaxOtherCalls
    /\ nOther' = nOther + 1
    /\ \E b \in BOOLEAN :
         /\ metadata' = [metadata EXCEPT !.missing_data = b]
         /\ last' = Call("set_missing_data", <<>>, b, "", [err |-> "ok", failAt |-> 0])
    /\ UNCHANGED <<pc, systemType, payload, packed, optedOut, nRecs, call, pat>>

AddFragment ==
    /\ pc = "built"
    /\ nRecs < MaxRecords
    /\ \E t \in FragTypes, w \in FragWords, allow \in BOOLEAN :
         LET frag == Frag(t, w, nRecs + 1)
         IN  \E out \in {addFragment(State, frag, allow)} :
             /\ Install(out.st)
             /\ packed' = IF out.err = "ok" THEN Append(packed, frag) ELSE packed
             /\ nRecs' = nRecs + 1
             /\ optedOut' = (optedOut \/ allow)
             /\ last' = Call("addFragment", <<frag>>, allow, "", out)
    /\ UNCHANGED <<pc, nOther, call, pat>>

AddFragments ==
    /\ pc = "built"
    /\ \E n \in 0..MaxBatch :
         /\ nRecs + n <= MaxRecords
         /\ n = 0 => nOther < MaxOtherCalls
         /\ nOther' = IF n = 0 THEN nOther + 1 ELSE nOther
         /\ \E ts \in [1..n -> FragTypes], ws \in [1..n -> FragWords],
               allow \in BOOLEAN,
               g \in (IF n = 0 /\ metadata.block_count = 0 THEN GarbageOffsets ELSE {0}) :
              LET frags == [i \in 1..n |-> Frag(ts[i], ws[i], nRecs + i)]
              IN  \E out \in {addFragments(State, frags, allow, g)} :
                  /\ Install(out.st)
                  /\ packed' = IF out.err = "ok" THEN packed \o frags ELSE packed
                  /\ nRecs' = nRecs + n
                  /\ optedOut' = (optedOut \/ allow)
                  /\ last' = Call("addFragments", frags, allow, "", out)
    /\ UNCHANGED <<pc, call, pat>>

Next ==
    \/ Construct
    \/ SetFragmentType
    \/ SetMissingData
    \/ AddFragment
    \/ AddFragments

Spec == Init /\ [][Next]_vars

(***************************************************************************)
(* The adds run statement by statement: a call is begun, then its          *)
(* statements run one at a time; no other call starts before it returns    *)
(* or throws.                                                              *)
(***************************************************************************)
Idle == call.run = <<>>

Running == [err |-> "running", failAt |-> 0]

BeginAddFragment ==
    /\ pc = "built"
    /\ Idle
    /\ nRecs < MaxRecords
    /\ \E t \in FragTypes, w \in FragWords, allow \in BOOLEAN :
         LET frag == Frag(t, w, nRecs + 1)
         IN  /\ call' = [run |-> addFragmentSteps(State, frag, allow), done |-> <<>>]
             /\ nRecs' = nRecs + 1
             /\ optedOut' = (optedOut \/ allow)
             /\ last' = Call("addFragment", <<frag>>, allow, "", Running)
    /\ UNCHANGED <<pc, systemType, metadata, payload, packed, nOther, pat>>

BeginAddFragments ==
    /\ pc = "built"
    /\ Idle
    /\ \E n \in 0..MaxBatch :
         /\ nRecs + n <= MaxRecords
         /\ n = 0 => nOther < MaxOtherCalls
         /\ nOther' = IF n = 0 THEN nOther + 1 ELSE nOther
         /\ \E ts \in [1..n -> FragTypes], ws \in [1..n -> FragWords],
               allow \in BOOLEAN,
               g \in (IF n = 0 /\ metadata.block_count = 0 THEN GarbageOffsets ELSE {0}) :
              LET frags == [i \in 1..n |-> Frag(ts[i], ws[i], nRecs + i)]
              IN  /\ call' = [run |-> addFragmentsSteps(State, frags, allow, g),
                              done |-> <<>>]
                  /\ nRecs' = nRecs + n
                  /\ optedOut' = (optedOut \/ allow)
                  /\ last' = Call("addFragments", frags, allow, "", Running)
    /\ UNCHANGED <<pc, systemType, metadata, payload, packed, pat>>

\* the next statement of the add in progress; the last one returns or throws
Step ==
    /\ ~Idle
    /\ LET s == Head(call.run)
           thrown == s.label = "throw"
       IN  /\ Install(s.st)
           /\ call' = [run |-> Tail(call.run),
                       done |-> Append(call.done,
                                       [label |-> s.label, k |-> s.k,
                                        off |-> s.off, len |-> s.len])]
           /\ IF Len(call.run) = 1
              THEN /\ last' = [last EXCEPT !.err = IF thrown THEN "WrongFragmentType"
                                                   ELSE "ok",
                                           !.failAt = IF thrown THEN s.k ELSE 0]
                   /\ packed' = IF thrown THEN packed ELSE packed \o last.frags
              ELSE UNCHANGED <<last, packed>>
    /\ UNCHANGED <<pc, optedOut, nRecs, nOther, pat>>

StepNext ==
    \/ Construct
    \/ BeginAddFragment
    \/ BeginAddFragments
    \/ Step

StepSpec == Init /\ [][StepNext]_vars

\* the statements of a call leave what the call as a whole leaves
StepsAgree ==
    (Idle /\ last.op \in {"addFragment", "addFragments"}) =>
        \E g \in GarbageOffsets \cup {0} :
            LET out == IF last.op = "addFragment"
                       THEN addFragment(last.pre, last.frags[1], last.allow)
                       ELSE addFragments(last.pre, last.frags, last.allow, g)
            IN  /\ State = out.st
                /\ last.err = out.err
                /\ last.failAt = out.failAt

(***************************************************************************)
(* ELGenFileOutput (artdaq-core/Utilities/GenFile_mfPlugin.cc): the        *)
(* constructor expands the tokens of the file pattern.  A string is a      *)
(* sequence of characters; positions count from 0 as std::string's do.     *)
(* pos is a size_t: its arithmetic is modulo SizeModulus, and npos is the  *)
(* largest value.  Strings here are far shorter than SizeModulus, as the   *)
(* program's are than 2^64, so a position that wrapped lies beyond the end *)
(* of every string.                                                        *)
(***************************************************************************)
SizeModulus == 65536
npos == SizeModulus - 1

\* pieces a pattern is built from
MaxPieces == 3
\* rounds of the substitution loop followed
MaxRounds == 8

\* what the tokens stand for: image name, host name, pid, local time, ISO time
exeString == <<"e">>
hostString == <<"h">>
pidString == <<"7">>
timeBuff == <<"1">>
timeBuffISO == <<"2">>
\* the "separator" parameter
sep == <<"-">>

Tokens == { <<"%", "N">>, <<"%", "?", "N">>, <<"%", "H">>, <<"%", "?", "H">>,
            <<"%", "p">>, <<"%", "t">>, <<"%", "T">> }
\* literal text: the image name, a separator, the dot of the extension
Literals == { exeString, <<"-">>, <<".">> }

RECURSIVE Flatten(_)
Flatten(pieces) ==
    IF pieces = <<>> THEN <<>> ELSE Head(pieces) \o Flatten(Tail(pieces))

\* "%%", a '%' on its own, '%' before a character the switch has no case
\* for, "%?" before a character other than N and H
Others == { <<"%", "%">>, <<"%">>, <<"%", "x">>, <<"%", "?", "x">> }

PatternsOf(pieces) ==
    UNION { {Flatten(ps) : ps \in [1..n -> pieces]} : n \in 0..MaxPieces }

\* the patterns of literal text and documented tokens
Documented == PatternsOf(Tokens \cup Literals)

Patterns == PatternsOf(Tokens \cup Literals \cup Others)

\* s[i], the terminating '\0' at i = size()
At(s, i) == IF i < Len(s) THEN s[i + 1] ELSE "\\0"

\* std::string::find(c, from)
find(s, c, from) ==
    LET hits == {i \in 0..(Len(s) - 1) : i >= from /\ s[i + 1] = c}
    IN  IF hits = {} THEN npos ELSE CHOOSE i \in hits : \A j \in hits : i <= j

\* std::string::find(sub)
findString(s, sub) ==
    LET hits == {i \in 0..(Len(s) - Len(sub)) : SubSeq(s, i + 1, i + Len(sub)) = sub}
    IN  IF hits = {} THEN npos ELSE CHOOSE i \in hits : \A j \in hits : i <= j

\* std::string::find_last_of(c)
find_last_of(s, c) ==
    LET hits == {i \in 0..(Len(s) - 1) : s[i + 1] = c}
    IN  IF hits = {} THEN npos ELSE CHOOSE i \in hits : \A j \in hits : i >= j

\* std::string::replace(at, n, with), at <= size()
replace(s, at, n, with) ==
    LET m == IF at + n > Len(s) THEN Len(s) - at ELSE n
    IN  SubSeq(s, 1, at) \o with \o SubSeq(s, at + m + 1, Len(s))

\* std::string::erase(at, n)
erase(s, at, n) == replace(s, at, n, <<>>)

\* lines 171-203: "%?N" and "%?H"; the value goes in, with the separator
\* unless the token ends the pattern or its stem, if the pattern does not
\* hold the value yet
Optional(filePattern, pos, value) ==
    IF findString(filePattern, value) # npos
    THEN erase(filePattern, pos - 1, 3)
    ELSE LET atEnd == \/ (pos + 1) % SizeModulus = (Len(filePattern) - 1) % SizeModulus
                      \/ (pos + 2) % SizeModulus = find_last_of(filePattern, ".")
             repString == IF atEnd THEN value ELSE value \o sep
         IN  replace(filePattern, pos - 1, 3, repString)

\* lines 158-229: one round of the loop, from pos0 with a '%' at or after it
ExpandOnce(filePattern, pos0) ==
    LET pos == (find(filePattern, "%", pos0) + 1) % SizeModulus
        c == At(filePattern, pos)
        next == At(filePattern, pos + 1)
    IN  CASE c = "%" ->
               [filePattern |-> replace(filePattern, pos - 1, 2, <<"%">>),
                pos |-> (pos - 1) % SizeModulus]
          [] c = "?" ->
               [filePattern |-> CASE next = "N" -> Optional(filePattern, pos, exeString)
                                  [] next = "H" -> Optional(filePattern, pos, hostString)
                                  [] OTHER -> filePattern,
                pos |-> (pos - 3) % SizeModulus]
          [] c = "N" ->
               [filePattern |-> replace(filePattern, pos - 1, 2, exeString),
                pos |-> (pos - 2) % SizeModulus]
          [] c = "H" ->
               [filePattern |-> replace(filePattern, pos - 1, 2, hostString),
                pos |-> (pos - 2) % SizeModulus]
          [] c = "p" ->
               [filePattern |-> replace(filePattern, pos - 1, 2, pidString),
                pos |-> (pos - 2) % SizeModulus]
          [] c = "t" ->
               [filePattern |-> replace(filePattern, pos - 1, 2, timeBuff),
                pos |-> (pos - 2) % SizeModulus]
          [] c = "T" ->
               [filePattern |-> replace(filePattern, pos - 1, 2, timeBuffISO),
                pos |-> (pos - 2) % SizeModulus]
          [] OTHER ->
               [filePattern |-> filePattern, pos |-> pos]

\* the container is not in use while a log destination is constructed
PatternInit ==
    /\ pc = "fresh"
    /\ systemType = "Invalid"
    /\ metadata = NoMetadata
    /\ payload = <<>>
    /\ packed = <<>>
    /\ optedOut = FALSE
    /\ nRecs = 0
    /\ nOther = 0
    /\ last = [op |-> "none", frags |-> <<>>, allow |-> FALSE, type |-> "",
               err |-> "ok", failAt |-> 0,
               pre |-> [systemType |-> "Invalid", metadata |-> NoMetadata, payload |-> <<>>]]
    /\ call = NoCall
    /\ \E p \in Patterns :
         pat = [pc |-> "expand", pattern |-> p, filePattern |-> p, pos |-> 0, rounds |-> 0]

\* one round of the while loop at line 157
Expand ==
    /\ pat.pc = "expand"
    /\ find(pat.filePattern, "%", pat.pos) # npos
    /\ pat.rounds < MaxRounds
    /\ \E out \in {ExpandOnce(pat.filePattern, pat.pos)} :
         pat' = [pat EXCEPT !.filePattern = out.filePattern, !.pos = out.pos,
                            !.rounds = @ + 1]
    /\ UNCHANGED <<pc, systemType, metadata, payload, packed, optedOut, nRecs, nOther,
                   last, call>>

\* the loop is left and the file is opened under the name, lines 231-234
Open ==
    /\ pat.pc = "expand"
    /\ find(pat.filePattern, "%", pat.pos) = npos
    /\ pat' = [pat EXCEPT !.pc = "open"]
    /\ UNCHANGED <<pc, systemType, metadata, payload, packed, optedOut, nRecs, nOther,
                   last, call>>

PatternNext ==
    \/ Expand
    \/ Open

PatternSpec == PatternInit /\ [][PatternNext]_vars

(***************************************************************************)
(* Sanity of the model: the index walk only ever reads a word that holds a *)
(* size (a record header or an index entry), inside the payload.           *)
(***************************************************************************)
WalkReadsSizes ==
    pc = "built" =>
        LET index == create_index_(metadata, payload)
        IN  \A i \in 1..metadata.block_count :
                /\ index[i] \div WordBytes + 1 \in DOMAIN payload
                /\ payload[index[i] \div WordBytes + 1].k \in {"hdr", "idx"}

(***************************************************************************)
(* Reading the container back.                                             *)
(***************************************************************************)
Adds == {"addFragment", "addFragments"}

\* every call since construction was an add that returned normally
OnlySuccessfulAdds == pc = "built" /\ nOther = 0 /\ nRecs = Len(packed)

\* the words of st.payload where the index table is said to be
StoredIndex(st) ==
    [i \in 1..(st.metadata.block_count + 1) |->
        LET p == st.metadata.index_offset \div WordBytes + i
        IN  IF p \in DOMAIN st.payload THEN st.payload[p] ELSE Junk]

\* the words of pl in the byte range [from, to)
Slice(pl, from, to) ==
    [i \in 1..((to - from) \div WordBytes) |->
        LET p == from \div WordBytes + i
        IN  IF p \in DOMAIN pl THEN pl[p] ELSE Junk]

\* start offset of record i (from 0) of the records added, packed after the magic word
StartOf(i) == WordBytes + SumBytes(SubSeq(packed, 1, i))

PackedIds == {packed[i].id : i \in DOMAIN packed}

(***************************************************************************)
(* C1: after a sequence of successful adds on a fresh container, the index *)
(* table stored at index_offset is the table obtained by walking the       *)
(* block_count packed records and accumulating their self-reported sizes.  *)
(***************************************************************************)
C1_IndexConsistency ==
    (OnlySuccessfulAdds /\ packed # <<>>) =>
        StoredIndex(State) = IndexBytes(create_index_(metadata, payload))

(***************************************************************************)
(* C2: whenever has_index is true, the table at index_offset holds         *)
(* block_count + 1 strictly increasing offsets, entry i is the start       *)
(* offset of record i and the last entry equals index_offset.              *)
(***************************************************************************)
C2_IndexShape ==
    (pc = "built" /\ metadata.has_index) =>
        LET t == StoredIndex(State)
            n == metadata.block_count
        IN  /\ \A i \in 1..(n + 1) : t[i].k = "idx"
            /\ \A i \in 1..n : t[i].val < t[i + 1].val
            /\ (n = Len(packed) => \A i \in 1..n : t[i].val = StartOf(i - 1))
            /\ t[n + 1].val = metadata.index_offset

(***************************************************************************)
(* C3: after successful adds of records r_0..r_{N-1}, block_count = N, the *)
(* index has N + 1 entries and the bytes in [index[i], index[i+1]) are the *)
(* bytes of r_i as supplied.                                               *)
(***************************************************************************)
C3_ReadBack ==
    (OnlySuccessfulAdds /\ packed # <<>>) =>
        LET t == StoredIndex(State)
        IN  /\ metadata.block_count = Len(packed)
            /\ \A i \in 1..(Len(packed) + 1) : t[i].k = "idx"
            /\ \A i \in 1..Len(packed) :
                   Slice(payload, t[i].val, t[i + 1].val) = FragBytes(packed[i])

(***************************************************************************)
(* C4: addFragment with allowDifferentTypes = false on a container bound   *)
(* to another type fails with WrongFragmentType and leaves the whole       *)
(* container (metadata, arena size, payload) as it was.                    *)
(***************************************************************************)
C4_SingleAddAtomic ==
    (/\ last.op = "addFragment"
     /\ ~last.allow
     /\ last.pre.metadata.fragment_type # EmptyFragmentType
     /\ last.frags[1].type # last.pre.metadata.fragment_type)
    => /\ last.err = "WrongFragmentType"
       /\ State = last.pre

C4_Witness ==
    /\ last.op = "addFragment"
    /\ last.err = "WrongFragmentType"
    /\ metadata.block_count >= 1
    /\ State = last.pre

(***************************************************************************)
(* C5: an add that finds fragment_type empty binds it to the record's type *)
(* and is not rejected, whatever allowDifferentTypes is; a bound           *)
(* fragment_type is never changed by an add.                               *)
(***************************************************************************)
\* the type a container bound to fragment_type is bound to after the records
\* of frags have been admitted in order
RECURSIVE BoundAfter(_, _)
BoundAfter(fragment_type, frags) ==
    IF frags = <<>> THEN fragment_type
    ELSE BoundAfter(IF fragment_type = EmptyFragmentType THEN Head(frags).type
                    ELSE fragment_type, Tail(frags))

C5_TypeAdoption ==
    last.op \in Adds =>
        LET before == last.pre.metadata.fragment_type
            admitted == IF last.failAt = 0 THEN last.frags
                        ELSE SubSeq(last.frags, 1, last.failAt - 1)
        IN  /\ (before # EmptyFragmentType) => metadata.fragment_type = before
            /\ metadata.fragment_type = BoundAfter(before, admitted)
            /\ (before = EmptyFragmentType /\ last.frags # <<>>) =>
                   /\ last.failAt # 1
                   /\ (last.op = "addFragment" =>
                           /\ last.err = "ok"
                           /\ metadata.fragment_type = last.frags[1].type)
            /\ (last.failAt # 0) =>
                   /\ BoundAfter(before, admitted) # EmptyFragmentType
                   /\ last.frags[last.failAt].type # BoundAfter(before, admitted)
                   /\ ~last.allow

C5_Witness ==
    /\ last.op = "addFragment"
    /\ last.allow
    /\ last.pre.metadata.fragment_type = "T"
    /\ last.frags[1].type = "U"
    /\ last.err = "ok"
    /\ metadata.fragment_type = "T"

(***************************************************************************)
(* C6: as long as no add was called with allowDifferentTypes = true, every *)
(* packed record's type equals the container's fragment_type.              *)
(***************************************************************************)
C6_Homogeneous ==
    (pc = "built" /\ ~optedOut) =>
        \A i \in DOMAIN packed : packed[i].type = metadata.fragment_type

(***************************************************************************)
(* C7: from the same container, adding a list of records one by one and    *)
(* adding it in one batch give the same block_count, fragment_type,        *)
(* index_offset, record bytes at the same offsets and index table.         *)
(***************************************************************************)
RECURSIVE AddEach(_, _, _)
AddEach(st, frags, allow) ==
    IF frags = <<>> THEN [st |-> st, err |-> "ok"]
    ELSE LET out == addFragment(st, Head(frags), allow)
         IN  IF out.err # "ok" THEN [st |-> out.st, err |-> out.err]
             ELSE AddEach(out.st, Tail(frags), allow)

\* what a reader sees: the metadata and the payload up to the end of the index table
Content(st) ==
    [metadata |-> st.metadata,
     words |-> Slice(st.payload, 0,
                     st.metadata.index_offset + SizeT * (st.metadata.block_count + 1))]

C7_SingleBatchEquivalent ==
    pc = "built" =>
        \A n \in 1..MaxBatch :
            \A ts \in [1..n -> FragTypes], ws \in [1..n -> FragWords], allow \in BOOLEAN :
                LET frags == [i \in 1..n |-> Frag(ts[i], ws[i], nRecs + i)]
                    one == AddEach(State, frags, allow)
                    all == addFragments(State, frags, allow, 0)
                IN  (one.err = "ok" /\ all.err = "ok") => Content(one.st) = Content(all.st)

(***************************************************************************)
(* C8: construction succeeds exactly when the arena holds header words +   *)
(* metadata words; then block_count = 0, fragment_type = the expected      *)
(* type, missing_data = false, has_index = true, version = current,        *)
(* index_offset = 0, the outer type is "container" and the payload is the  *)
(* one magic word.                                                         *)
(***************************************************************************)
C8_Construction ==
    last.op = "construct" =>
        /\ (pc = "built") <=>
               (FragmentSize(last.pre.payload)
                    = HeaderWords + words_to_frag_words_(Metadata_size_words))
        /\ (pc = "failed") <=> (last.err = "InvalidFragment")
        /\ pc = "built" =>
               /\ metadata = [block_count |-> 0, fragment_type |-> last.type,
                              missing_data |-> FALSE, has_index |-> TRUE,
                              version |-> CURRENT_VERSION, index_offset |-> 0]
               /\ systemType = ContainerFragmentType
               /\ payload = <<Magic>>

C8_Witness ==
    /\ last.op = "construct"
    /\ pc = "built"
    /\ payload = <<Magic>>

(***************************************************************************)
(* C9: a construction that fails with InvalidFragment has written nothing: *)
(* outer type tag, metadata slot, size and payload are as before.          *)
(***************************************************************************)
C9_FailedConstructionWritesNothing ==
    pc = "failed" => State = last.pre

(***************************************************************************)
(* C10: block_count is the number of records packed: a successful          *)
(* addFragment adds 1, a successful addFragments of n records adds n, and  *)
(* the payload never holds copied record bytes block_count does not count. *)
(***************************************************************************)
C10_BlockCount ==
    pc = "built" =>
        /\ metadata.block_count = Len(packed)
        /\ (last.op \in Adds /\ last.err = "ok") =>
               metadata.block_count = last.pre.metadata.block_count + Len(last.frags)
        /\ \A p \in DOMAIN payload :
               payload[p].k \in {"hdr", "dat"} => payload[p].id \in PackedIds

(***************************************************************************)
(* C11: from construction onward the first payload word holds the magic    *)
(* marker: no addFragment or addFragments call overwrites it, and every    *)
(* record word lies after it.                                              *)
(***************************************************************************)
C11_MagicMarker ==
    pc = "built" =>
        /\ payload # <<>>
        /\ payload[1] = Magic
        /\ \A p \in DOMAIN payload : payload[p].k \in {"hdr", "dat"} => p > 1

(***************************************************************************)
(* The statements of the add in progress, or of the add that ended last.   *)
(***************************************************************************)
DoneLabels == {call.done[i].label : i \in DOMAIN call.done}

Count(label) == Cardinality({i \in DOMAIN call.done : call.done[i].label = label})

\* the add in progress runs to its end without throwing
WillSucceed == ~Idle /\ call.run[Len(call.run)].label # "throw"

\* record bytes of the add in progress have landed, its index table has not
InWindow == "memcpy frag" \in DoneLabels /\ "memcpy index" \notin DoneLabels

\* the words at index_offset are the table the container held when the add
\* began, for the block_count it had
TableAsBefore ==
    /\ metadata.block_count = last.pre.metadata.block_count
    /\ metadata.index_offset = last.pre.metadata.index_offset
    /\ StoredIndex(State) = StoredIndex(last.pre)

(***************************************************************************)
(* C12: a mutation that succeeds starts and ends with has_index = true,    *)
(* and in every step in between where the bytes at index_offset are not a  *)
(* valid index table for the current block_count (from the moment new      *)
(* record bytes land until the new table and index_offset are written)     *)
(* has_index is false.                                                     *)
(***************************************************************************)
C12_HasIndexProtocol ==
    pc = "built" =>
        /\ Idle => metadata.has_index
        /\ (WillSucceed /\ InWindow /\ ~TableAsBefore) => ~metadata.has_index

\* a supported token stands at i (from 0) in s
TokenAt(s, i) ==
    /\ At(s, i) = "%"
    /\ \/ At(s, i + 1) \in {"N", "H", "p", "t", "T"}
       \/ At(s, i + 1) = "?" /\ At(s, i + 2) \in {"N", "H"}

(***************************************************************************)
(* C15: for every pattern built from literal text and the tokens %N, %?N,  *)
(* %H, %?H, %p, %t, %T the constructor replaces every token wherever it    *)
(* stands, a token at index 0 included: the file name holds no unexpanded  *)
(* token.                                                                  *)
(***************************************************************************)
C15_PatternExpanded ==
    (pat.pc = "open" /\ pat.pattern \in Documented) =>
        \A i \in 0..(Len(pat.filePattern) - 1) : ~TokenAt(pat.filePattern, i)

(***************************************************************************)
(* C16: once the capacity step of an add is over the payload holds at      *)
(* least end of data + bytes added + 8 * (block_count after the add + 1)   *)
(* bytes, and every byte written by the record copies and by the copy of   *)
(* the index table to index_offset lies inside the payload.                *)
(***************************************************************************)
C16_WriteBounds ==
    (pc = "built" /\ last.op \in Adds) =>
        /\ DoneLabels \cap {"memcpy frag", "has_index = 0"} # {} =>
               dataSizeBytes(payload) >=
                   lastFragmentIndex(last.pre.metadata, last.pre.payload)
                       + SumBytes(last.frags)
                       + SizeT * (last.pre.metadata.block_count + Len(last.frags) + 1)
        /\ \A i \in DOMAIN call.done :
               call.done[i].len > 0 =>
                   call.done[i].off + call.done[i].len <= dataSizeBytes(payload)

(***************************************************************************)
(* C17: one addFragments call of n records grows the arena at most once,   *)
(* before any record is copied, changes block_count once, by n, and builds *)
(* and writes the index table once, after all n records are copied.        *)
(***************************************************************************)
C17_BatchAmortized ==
    (pc = "built" /\ last.op = "addFragments") =>
        LET n == Len(last.frags)
            copiesBefore(i) ==
                Cardinality({j \in 1..(i - 1) : call.done[j].label = "memcpy frag"})
        IN  /\ Count("addSpace_") <= 1
            /\ \A i \in DOMAIN call.done : call.done[i].label = "addSpace_" => i = 1
            /\ Count("block_count") <= 1
            /\ Count("index_offset") <= 1
            /\ Count("memcpy index") <= 1
            /\ \A i \in DOMAIN call.done :
                   call.done[i].label \in {"block_count", "index_offset", "memcpy index"}
                       => copiesBefore(i) = n
            /\ metadata.block_count =
                   IF "block_count" \in DoneLabels
                   THEN last.pre.metadata.block_count + n
                   ELSE last.pre.metadata.block_count
            /\ (Idle /\ last.err = "ok") =>
                   /\ Count("block_count") = 1
                   /\ Count("index_offset") = 1
                   /\ Count("memcpy index") = 1

C17_Witness ==
    /\ pc = "built"
    /\ Idle
    /\ last.op = "addFragments"
    /\ last.err = "ok"
    /\ Len(last.frags) = MaxBatch
    /\ "addSpace_" \in DoneLabels
\* the bytes an add is short of: end of data + bytes added + the new index
\* table, less the payload size
Shortfall(pre, frags) ==
    lastFragmentIndex(pre.metadata, pre.payload) + SumBytes(frags)
        + SizeT * (pre.metadata.block_count + 1 + Len(frags))
        - dataSizeBytes(pre.payload)

\* the last call was an add that reached its capacity step and called addSpace_
Grew ==
    /\ pc = "built"
    /\ last.op \in Adds
    /\ last.op = "addFragment" => last.err = "ok"
    /\ Shortfall(last.pre, last.frags) > 0

(***************************************************************************)
(* C13: when an add finds the payload short by R bytes and calls           *)
(* addSpace_(R), the payload afterwards holds at least the previous size   *)
(* plus R, in whole words rounded up, and more than that bare minimum is   *)
(* reserved.                                                               *)
(***************************************************************************)
C13_GrowthLowerBound ==
    Grew =>
        LET prev == dataSizeBytes(last.pre.payload)
            R == Shortfall(last.pre, last.frags)
            bare == (prev + R + WordBytes - 1) \div WordBytes
        IN  /\ dataSizeBytes(payload) >= prev + R
            /\ Len(payload) >= bare
            /\ Len(payload) > bare

C13_Witness ==
    /\ Grew
    /\ last.err = "ok"
    /\ last.pre.metadata.block_count > 0

(***************************************************************************)
(* C14: an add, returning normally or throwing, leaves missing_data and    *)
(* version as they were; missing_data changes through set_missing_data     *)
(* only and version is what construction wrote.                            *)
(***************************************************************************)
C14_CallerFlags ==
    pc = "built" =>
        /\ metadata.version = CURRENT_VERSION
        /\ last.op \in Adds \cup {"set_fragment_type"} =>
               /\ metadata.missing_data = last.pre.metadata.missing_data
               /\ metadata.version = last.pre.metadata.version
        /\ last.op = "set_missing_data" => metadata.missing_data = last.allow

C14_Witness ==
    /\ pc = "built"
    /\ last.op \in Adds
    /\ last.err = "ok"
    /\ metadata.missing_data

(***************************************************************************)
(* C18: an addFragments call that throws WrongFragmentType at a record     *)
(* after the first leaves block_count, fragment_type, has_index and        *)
(* index_offset as they were, and the index table at index_offset as it    *)
(* was.                                                                    *)
(***************************************************************************)
C18_BatchErrorAtomic ==
    (last.op = "addFragments" /\ last.err = "WrongFragmentType" /\ last.failAt >= 2) =>
        /\ metadata = last.pre.metadata
        /\ StoredIndex(State) = StoredIndex(last.pre)

(***************************************************************************)
(* C19: an add that returns normally leaves every record packed before it  *)
(* where it was and as it was, also when the call grew the arena.          *)
(***************************************************************************)
C19_AppendOnly ==
    (pc = "built" /\ last.op \in Adds /\ last.err = "ok") =>
        \A i \in 1..(Len(packed) - Len(last.frags)) :
            Slice(payload, StartOf(i - 1), StartOf(i))
                = Slice(last.pre.payload, StartOf(i - 1), StartOf(i))

(***************************************************************************)
(* C20: addFragments of an empty list reads no index entry outside         *)
(* 0..block_count and leaves block_count, fragment_type, index_offset,     *)
(* has_index = true and all packed bytes as they were.                     *)
(***************************************************************************)
C20_EmptyBatchNoOp ==
    (pc = "built" /\ last.op = "addFragments" /\ last.frags = <<>>) =>
        LET end == lastFragmentIndex(last.pre.metadata, last.pre.payload)
        IN  /\ metadata.block_count - 1 \in 0..metadata.block_count
            /\ metadata = last.pre.metadata
            /\ metadata.has_index
            /\ Slice(payload, 0, end) = Slice(last.pre.payload, 0, end)

\* where the loop stands: the string and the '%' its next round reads
LoopAt(p) == <<p.filePattern, find(p.filePattern, "%", p.pos)>>

(***************************************************************************)
(* C21: the substitution loop ends after finitely many rounds, for every   *)
(* pattern: '%' before an unsupported character, "%?" before a character   *)
(* other than N and H, a trailing '%' and "%%" included.  A round of the   *)
(* loop never leaves the loop where the round found it.                    *)
(***************************************************************************)
C21_ExpansionTerminates ==
    [][(pat.pc = "expand" /\ pat'.pc = "expand" /\ pat'.rounds = pat.rounds + 1)
           => LoopAt(pat') # LoopAt(pat)]_vars

====
